---- MODULE Spec2Model ----
(***************************************************************************)
(* RTCP compound-packet builder and header codec of rtp/src/rtcp/mod.rs.   *)
(*                                                                         *)
(* The destination buffer is modelled as a map from byte offsets to the    *)
(* cells written there: a header cell keeps the header bytes (byte 0,      *)
(* byte 1 and the 16-bit length field), a body cell keeps the item whose   *)
(* opaque record was serialized at that offset.                            *)
(***************************************************************************)
EXTENDS Integers, Sequences, FiniteSets, TLC

VARIABLES
    feedback,   \* VecDeque<RtcpFb>: the pending queue
    called,     \* TRUE once build_feedback has been called
    before,     \* the queue as it was handed to the last build_feedback call
    blen,       \* buf.len() of the last build_feedback call
    ret,        \* value returned by the last build_feedback call
    out,        \* bytes put into buf by the last call: offset -> cell
    pkts,       \* the groups written by the last call, in order
    panic,      \* "none", or the abort the last call ended with
    hbuf,       \* header codec: the bytes under test (<<>> when none)
    hlen,       \* header codec: RtcpHeader.length given to write_to (0 when none)
    hres,       \* header codec: result of the last RtcpHeader::parse
    ibuf,       \* FbIter: the buffer iterated over, offset -> cell
    ilen,       \* FbIter: length of that buffer (0 when none)
    ichecks,    \* FbIter: whether the build has overflow checks
    icur,       \* FbIter: the cursor
    iturn,      \* FbIter: parity of the number of headers decoded so far
    idone       \* FbIter: "no" while iterating, then "end" or "panic"

vars == <<feedback, called, before, blen, ret, out, pkts, panic, hbuf, hlen, hres,
          ibuf, ilen, ichecks, icur, iturn, idone>>

ivars == <<ibuf, ilen, ichecks, icur, iturn, idone>>

bvars == <<feedback, called, before, blen, ret, out, pkts, panic>>

hvars == <<hbuf, hlen, hres>>

----------------------------------------------------------------------------
(* Bounds of the model *)

\* longest queue of arbitrary kinds
MaxQueue == 3

\* longest queue made of SenderInfo and ReceiverReport items only
MaxReports == 34

\* most SenderInfo items in a long report-only queue
MaxSenderInfo == 1

\* destination buffer sizes handed to build_feedback
BufSizes == {0, 7, 8, 12, 27, 28, 32, 56, 1200}

\* destination buffer sizes handed to build_feedback for a queue longer than MaxQueue
LongBufSizes == {32, 56, 776, 1200}

----------------------------------------------------------------------------
(* Program constants *)

SR_LEN == 24

RR_LEN == 24

\* const NEEDED: usize = 4 + 4
NEEDED == 8

\* bytes written by Ssrc::write_to
SSRC_LEN == 4

\* "Each SR can hold at most 31 RR"
MAX_COUNT == 31

Kinds == {"SenderInfo", "ReceiverReport", "Sdes", "Goodbye", "Nack", "Pli", "Fir"}

RtcpFb(k, s) == [kind |-> k, ssrc |-> s]

\* RtcpType as u8
SenderReportPT == 200

ReceiverReportPT == 201

SourceDescriptionPT == 202

GoodbyePT == 203

ApplicationDefinedPT == 204

TransportLayerFeedbackPT == 205

PayloadSpecificFeedbackPT == 206

ExtendedReportPT == 207

header_len(pt) ==
    CASE pt = SenderReportPT -> 4
      [] pt = ReceiverReportPT -> 8
      [] pt = SourceDescriptionPT -> 4
      [] pt = GoodbyePT -> 4
      [] pt = ApplicationDefinedPT -> 4
      [] pt = TransportLayerFeedbackPT -> 8
      [] pt = PayloadSpecificFeedbackPT -> 8
      [] pt = ExtendedReportPT -> 8

\* mutant of from_u8: the range of packet types is one too wide on both sides
from_u8_Wide(v) == IF v \in 199..208 THEN v ELSE -1

from_u8(v) == IF v \in 200..207 THEN v ELSE -1

----------------------------------------------------------------------------
(* Small helpers *)

Min(a, b) == IF a < b THEN a ELSE b

\* iter().filter(|f| matches!(f, kind)).count()
Count(q, k) == Cardinality({i \in 1..Len(q) : q[i].kind = k})

\* mutant of Position: the last match instead of the first
Position_Last(q, k, i) ==
    LET S == {j \in i..Len(q) : q[j].kind = k}
    IN  IF S = {} THEN 0 ELSE CHOOSE j \in S : \A m \in S : m <= j

\* iter().position(|f| matches!(f, kind)); 0 when there is none
RECURSIVE Position(_, _, _)
Position(q, k, i) ==
    IF i > Len(q) THEN 0
    ELSE IF q[i].kind = k THEN i ELSE Position(q, k, i + 1)

\* mutant of Remove: the yanked item is left in the queue
Remove_Keep(q, pos) == q

\* VecDeque::remove(pos)
Remove(q, pos) == SubSeq(q, 1, pos - 1) \o SubSeq(q, pos + 1, Len(q))

U8(n) == n % 256

U16(n) == n % 65536

Put(f, k, v) == [x \in DOMAIN f \cup {k} |-> IF x = k THEN v ELSE f[x]]

NoItem == RtcpFb("none", 0)

Empty == [x \in {} |-> 0]

----------------------------------------------------------------------------
(* RtcpFb::ord_no and the stable sort_by_key of build_feedback *)

\* mutant of ord_no: Goodbye sorts ahead of the reports
ord_no_GoodbyeFirst(fb) ==
    CASE fb.kind = "Goodbye" -> 0
      [] fb.kind = "SenderInfo" -> 1
      [] fb.kind = "ReceiverReport" -> 2
      [] fb.kind = "Sdes" -> 3
      [] fb.kind = "Nack" -> 4
      [] fb.kind = "Pli" -> 5
      [] fb.kind = "Fir" -> 6

ord_no(fb) ==
    CASE fb.kind = "SenderInfo" -> 0
      [] fb.kind = "ReceiverReport" -> 1
      [] fb.kind = "Goodbye" -> 2
      [] fb.kind = "Sdes" -> 3
      [] fb.kind = "Nack" -> 4
      [] fb.kind = "Pli" -> 5
      [] fb.kind = "Fir" -> 6

WithKey(q, n) == SelectSeq(q, LAMBDA fb : ord_no(fb) = n)

\* feedback.make_contiguous().sort_by_key(RtcpFb::ord_no): a stable sort, items of
\* equal key keep their order
SortByKey(q) ==
    WithKey(q, 0) \o WithKey(q, 1) \o WithKey(q, 2) \o WithKey(q, 3) \o WithKey(q, 4)
    \o WithKey(q, 5) \o WithKey(q, 6)

----------------------------------------------------------------------------
(* RtcpHeader and the writers *)

\* FeedbackMessageType::as_u8 of ReceptionReport(count) / SourceCount(count)
as_u8(count) == count

\* 0b10_0_00000 | v on u8
OrVersion(v) == IF v >= 128 THEN v ELSE 128 + v

BodyCell(fb, n) ==
    [t |-> "body", b0 |-> 0, b1 |-> 0, w |-> 0, ssrc |-> FALSE, item |-> fb, len |-> n]

HdrCell(b0, b1, w, n) ==
    [t |-> "hdr", b0 |-> b0, b1 |-> b1, w |-> w, ssrc |-> (n = 8), item |-> NoItem,
     len |-> n]

\* a slice write of size bytes at absolute offset off of the caller's buffer
WriteCell(st, off, size, cell) ==
    IF st.panic # "none" THEN st
    ELSE IF off + size > st.blen THEN [st EXCEPT !.panic = "oob"]
    ELSE [st EXCEPT !.out = Put(@, off, cell)]

\* RtcpFb::as_header
as_header(fb, count, length) ==
    [count |-> count,
     packet_type |->
        CASE fb.kind = "SenderInfo" -> SenderReportPT
          [] fb.kind = "ReceiverReport" -> ReceiverReportPT
          [] fb.kind = "Sdes" -> SourceDescriptionPT
          [] fb.kind = "Goodbye" -> GoodbyePT
          [] fb.kind = "Nack" -> TransportLayerFeedbackPT
          [] fb.kind = "Pli" -> PayloadSpecificFeedbackPT
          [] fb.kind = "Fir" -> PayloadSpecificFeedbackPT,
     length |-> length,
     ssrc |-> IF fb.kind = "SenderInfo" THEN fb.ssrc ELSE 0]

\* the 16-bit wire length field written by RtcpHeader::write_to
WireLength(length) == U16((length \div 4) - 1)

\* the bytes RtcpHeader::write_to puts into buf[0], buf[1] and buf[2..4]
HeaderBytes(h) ==
    [b0 |-> OrVersion(as_u8(h.count)), b1 |-> h.packet_type, w |-> WireLength(h.length)]

\* RtcpHeader::write_to, at absolute offset off
HeaderWriteTo(h, st, off) ==
    IF st.panic # "none" THEN st
    ELSE IF h.length % 4 # 0 THEN [st EXCEPT !.panic = "assert"]
    ELSE LET b == HeaderBytes(h)
         IN  WriteCell(st, off, header_len(h.packet_type),
                       HdrCell(b.b0, b.b1, b.w, header_len(h.packet_type)))

\* RtcpFb::write_to, at absolute offset off
FbWriteTo(fb, st, off) ==
    IF st.panic # "none" THEN st
    ELSE CASE fb.kind = "SenderInfo" -> WriteCell(st, off, SR_LEN, BodyCell(fb, SR_LEN))
           [] fb.kind = "ReceiverReport" -> WriteCell(st, off, RR_LEN, BodyCell(fb, RR_LEN))
           [] fb.kind = "Goodbye" -> WriteCell(st, off, SSRC_LEN, BodyCell(fb, SSRC_LEN))
           [] OTHER -> [st EXCEPT !.panic = "todo"]

\* the item joins the group being written
Logged(st, fb) == IF st.panic # "none" THEN st ELSE [st EXCEPT !.cur = Append(@, fb)]

----------------------------------------------------------------------------
(* build_feedback, pass 1: SenderReport / ReceiverReport groups *)

\* mutant of IsReport: the ReceiverReport alternative is forgotten
IsReport_SenderOnly(fb) == fb.kind = "SenderInfo"

IsReport(fb) == fb.kind \in {"SenderInfo", "ReceiverReport"}

\* mutant of NeededLen: the header is left out of the space check
NeededLen_NoHeader(fb) == IF fb.kind = "SenderInfo" THEN SR_LEN ELSE RR_LEN

\* (needed_len, xrr) for the first item of a group
NeededLen(fb) ==
    IF fb.kind = "SenderInfo" THEN header_len(SenderReportPT) + SR_LEN
    ELSE header_len(ReceiverReportPT) + RR_LEN

Xrr(fb) == IF fb.kind = "SenderInfo" THEN 0 ELSE 1

\* mutant of MaxRr: every remaining item is counted, not only the ReceiverReports
MaxRr_CountAll(q, buflen, needed_len) ==
    Min(Min(Len(q), MAX_COUNT), (buflen - needed_len) \div RR_LEN)

\* mutant of MaxRr: a report that fits exactly is held not to fit
MaxRr_Tight(q, buflen, needed_len) ==
    Min(Min(Count(q, "ReceiverReport"), MAX_COUNT), (buflen - needed_len - 1) \div RR_LEN)

\* mutant of MaxRr: the cap is one too small
MaxRr_Cap30(q, buflen, needed_len) ==
    Min(Min(Count(q, "ReceiverReport"), MAX_COUNT - 1), (buflen - needed_len) \div RR_LEN)

\* mutant of MaxRr: no cap on the count field
MaxRr_NoCap(q, buflen, needed_len) ==
    Min(Count(q, "ReceiverReport"), (buflen - needed_len) \div RR_LEN)

\* let max_rr = { ... rr_count.min(31).min(fitting_sr) }
MaxRr(q, buflen, needed_len) ==
    LET rr_count == Count(q, "ReceiverReport")
        available_for_rr == buflen - needed_len
        fitting_sr == available_for_rr \div RR_LEN
    IN  Min(Min(rr_count, MAX_COUNT), fitting_sr)

\* let count = max_rr + xrr
ReportCount(max_rr, xrr) == max_rr + xrr

\* for i in 0..max_rr { position .. remove .. write_to }
RECURSIVE YankRr(_, _, _, _, _)
YankRr(st, i, max_rr, needed_len, base) ==
    IF st.panic # "none" \/ i >= max_rr THEN st
    ELSE LET pos == Position(st.q, "ReceiverReport", 1)
         IN  IF pos = 0 THEN [st EXCEPT !.panic = "expect"]
             ELSE LET rr == st.q[pos]
                      s1 == [st EXCEPT !.q = Remove(@, pos)]
                      off == needed_len + i * RR_LEN
                  IN  YankRr(Logged(FbWriteTo(rr, s1, base + off), rr),
                             i + 1, max_rr, needed_len, base)

\* mutant of Advance: the bytes of the group are not added to abs
Advance_NoAbs(st, pt, count, length) ==
    IF st.panic # "none" THEN st
    ELSE [st EXCEPT !.pkts = Append(@, [off |-> st.abs, pt |-> pt, count |-> count,
                                        length |-> length, items |-> st.cur]),
                    !.cur = <<>>]

\* buf = &mut buf[length..]; abs += length
Advance(st, pt, count, length) ==
    IF st.panic # "none" THEN st
    ELSE IF st.abs + length > st.blen THEN [st EXCEPT !.panic = "oob"]
    ELSE [st EXCEPT !.pkts = Append(@, [off |-> st.abs, pt |-> pt, count |-> count,
                                        length |-> length, items |-> st.cur]),
                    !.cur = <<>>,
                    !.abs = @ + length]

RECURSIVE Pass1(_)
Pass1(st) ==
    IF st.panic # "none" \/ st.returned THEN st
    ELSE IF st.q = <<>> \/ ~IsReport(Head(st.q)) THEN st
    ELSE LET front == Head(st.q)
             needed_len == NeededLen(front)
             xrr == Xrr(front)
             buflen == st.blen - st.abs
         IN  IF buflen < needed_len THEN [st EXCEPT !.returned = TRUE]
             ELSE LET fb == front
                      s0 == [st EXCEPT !.q = Tail(@)]
                      max_rr == MaxRr(s0.q, buflen, needed_len)
                      length == needed_len + max_rr * RR_LEN
                      count == ReportCount(max_rr, xrr)
                      header == as_header(fb, U8(count), length)
                      s1 == HeaderWriteTo(header, s0, st.abs)
                      s2 == Logged(FbWriteTo(fb, s1, st.abs + header_len(header.packet_type)),
                                   fb)
                      s3 == YankRr(s2, 0, max_rr, needed_len, st.abs)
                  IN  Pass1(Advance(s3, header.packet_type, header.count, length))

----------------------------------------------------------------------------
(* build_feedback, pass 2: Goodbye groups *)

\* mutant of MaxGb: every remaining item is counted, not only the Goodbyes
MaxGb_CountAll(q, buflen) ==
    Min(Min(Len(q), MAX_COUNT), (buflen - NEEDED) \div 4)

\* let max_gb = { ... gb_count.min(31).min(fitting_gb) }
MaxGb(q, buflen) ==
    LET gb_count == Count(q, "Goodbye")
        available_for_gb == buflen - NEEDED
        fitting_gb == available_for_gb \div 4
    IN  Min(Min(gb_count, MAX_COUNT), fitting_gb)

\* for i in 0..max_gb { pop_front .. write_to }
RECURSIVE PopGb(_, _, _, _)
PopGb(st, i, max_gb, base) ==
    IF st.panic # "none" \/ i >= max_gb THEN st
    ELSE IF st.q = <<>> THEN [st EXCEPT !.panic = "expect"]
    ELSE LET fbn == Head(st.q)
             s1 == [st EXCEPT !.q = Tail(@)]
             off == NEEDED + i * 4
         IN  PopGb(Logged(FbWriteTo(fbn, s1, base + off), fbn), i + 1, max_gb, base)

RECURSIVE Pass2(_)
Pass2(st) ==
    IF st.panic # "none" \/ st.returned THEN st
    ELSE IF st.q = <<>> \/ Head(st.q).kind # "Goodbye" THEN st
    ELSE LET buflen == st.blen - st.abs
         IN  IF buflen < NEEDED THEN [st EXCEPT !.returned = TRUE]
             ELSE LET fb == Head(st.q)
                      s0 == [st EXCEPT !.q = Tail(@)]
                      max_gb == MaxGb(s0.q, buflen)
                      length == NEEDED + max_gb * 4
                      header == as_header(fb, U8(max_gb), length)
                      s1 == HeaderWriteTo(header, s0, st.abs)
                      s2 == Logged(FbWriteTo(fb, s1, st.abs + header_len(header.packet_type)),
                                   fb)
                      s3 == PopGb(s2, 0, max_gb, st.abs)
                  IN  Pass2(Advance(s3, header.packet_type, header.count, length))

\* RtcpFb::build_feedback(feedback, buf) with buf.len() = n
build_feedback(q, n) ==
    Pass2(Pass1([q |-> SortByKey(q), blen |-> n, abs |-> 0, out |-> Empty,
                 pkts |-> <<>>, cur |-> <<>>, panic |-> "none", returned |-> FALSE]))

----------------------------------------------------------------------------
(* RtcpHeader::parse *)

\* TransportType::from_u8 is Some: only Nack is recognized
KnownTransportType(fmt_n) == fmt_n = 1

\* PayloadType::from_u8 is Some: PictureLossIndication, FullIntraRequest
KnownPayloadType(fmt_n) == fmt_n \in {1, 4}

NoHeader == [ok |-> FALSE, panic |-> FALSE, has_padding |-> FALSE, fmt_n |-> 0,
             packet_type |-> 0, length |-> 0]

Overflowed == [NoHeader EXCEPT !.panic = TRUE]

\* (u16::from_be_bytes(length_be) + 1) * 4 evaluated on u16: with overflow checks
\* the arithmetic aborts (-1), without them it wraps
DecodedLength(w, checks) ==
    IF (w + 1) * 4 > 65535
    THEN (IF checks THEN -1 ELSE U16(U16(w + 1) * 4))
    ELSE (w + 1) * 4

\* RtcpHeader::parse of a buffer of n bytes starting with b0, b1, be16 w
parse(n, b0, b1, w, is_srtcp, checks) ==
    LET version == (b0 \div 64) % 4
        has_padding == (b0 \div 32) % 2 = 1
        fmt_n == b0 % 32
        packet_type == from_u8(b1)
        length == DecodedLength(w, checks)
    IN  IF n < 8 THEN NoHeader
        ELSE IF version # 2 THEN NoHeader
        ELSE IF packet_type = -1 THEN NoHeader
        ELSE IF packet_type = TransportLayerFeedbackPT /\ ~KnownTransportType(fmt_n)
             THEN NoHeader
        ELSE IF packet_type = PayloadSpecificFeedbackPT /\ ~KnownPayloadType(fmt_n)
             THEN NoHeader
        ELSE IF is_srtcp /\ packet_type # SenderReportPT /\ packet_type # ReceiverReportPT
             THEN NoHeader
        ELSE IF length = -1 THEN Overflowed
        ELSE [ok |-> TRUE, panic |-> FALSE, has_padding |-> has_padding, fmt_n |-> fmt_n,
              packet_type |-> packet_type, length |-> length]

\* RtcpHeader::parse of the first n bytes of a built buffer, at offset c
ParseAt(o, n, c, is_srtcp, checks) ==
    IF c \in DOMAIN o /\ o[c].t = "hdr"
    THEN parse(n - c, o[c].b0, o[c].b1, o[c].w, is_srtcp, checks)
    ELSE NoHeader

----------------------------------------------------------------------------
(* FbIter: the decoded sequence of RtcpFb::feedback(&buf[..n]) *)

Garbage(off) == RtcpFb("garbage", off)

\* the record of the given kind read at offset off
ReadBody(o, n, off, k, size) ==
    IF off \in DOMAIN o /\ o[off].t = "body" /\ o[off].item.kind = k /\ off + size <= n
    THEN o[off].item
    ELSE Garbage(off)

RECURSIVE ReadSlots(_, _, _, _, _, _)
ReadSlots(o, n, off, k, size, cnt) ==
    IF cnt = 0 THEN <<>>
    ELSE <<ReadBody(o, n, off, k, size)>> \o ReadSlots(o, n, off + size, k, size, cnt - 1)

\* the items one header yields
Yield(o, n, c, h) ==
    CASE h.packet_type = SenderReportPT ->
            <<ReadBody(o, n, c + 4, "SenderInfo", SR_LEN)>>
            \o ReadSlots(o, n, c + 4 + SR_LEN, "ReceiverReport", RR_LEN, h.fmt_n)
      [] h.packet_type = ReceiverReportPT ->
            ReadSlots(o, n, c + 8, "ReceiverReport", RR_LEN, h.fmt_n)
      [] h.packet_type = GoodbyePT ->
            ReadSlots(o, n, c + 4, "Goodbye", SSRC_LEN, h.fmt_n)
      [] OTHER -> <<>>

RECURSIVE Decode(_, _, _, _)
Decode(o, n, c, checks) ==
    LET h == ParseAt(o, n, c, FALSE, checks)
    IN  IF ~h.ok \/ h.length = 0 THEN <<>>
        ELSE Yield(o, n, c, h) \o Decode(o, n, c + h.length, checks)

----------------------------------------------------------------------------
(* The pending queue and the calls of build_feedback *)

ReportsOnly(q) == \A i \in 1..Len(q) : IsReport(q[i])

\* queues the model enqueues: short ones of any kinds in any order, and long ones
\* of reports, where past the first MaxQueue items the SenderInfo items come last
Admitted(q) ==
    \/ Len(q) <= MaxQueue
    \/ /\ ReportsOnly(q)
       /\ Len(q) <= MaxReports
       /\ Count(q, "SenderInfo") <= MaxSenderInfo
       /\ \A i \in (MaxQueue + 1)..Len(q) : \A j \in (i + 1)..Len(q) :
             ~(q[i].kind = "SenderInfo" /\ q[j].kind = "ReceiverReport")

NoBytes == [n |-> 0, b0 |-> 0, b1 |-> 0, w |-> 0]

NoResult == [done |-> FALSE, is_srtcp |-> FALSE, checks |-> FALSE, h |-> NoHeader]

Init ==
    /\ feedback = <<>>
    /\ called = FALSE
    /\ before = <<>>
    /\ blen = 0
    /\ ret = 0
    /\ out = Empty
    /\ pkts = <<>>
    /\ panic = "none"
    /\ hbuf = NoBytes
    /\ hlen = 0
    /\ hres = NoResult
    /\ ibuf = Empty
    /\ ilen = 0
    /\ ichecks = FALSE
    /\ icur = 0
    /\ iturn = 0
    /\ idone = "no"

\* feedback.push_back(fb), before the queue is flushed
Push(k) ==
    /\ ~called
    /\ Admitted(Append(feedback, RtcpFb(k, Count(feedback, k) + 1)))
    /\ feedback' = Append(feedback, RtcpFb(k, Count(feedback, k) + 1))
    /\ UNCHANGED <<called, before, blen, ret, out, pkts, panic>>
    /\ UNCHANGED hvars
    /\ UNCHANGED ivars

\* let n = RtcpFb::build_feedback(&mut feedback, &mut buf[..n])
BuildFeedback(n) ==
    /\ panic = "none"
    /\ Len(feedback) > MaxQueue => n \in LongBufSizes
    /\ LET r == build_feedback(feedback, n)
       IN  /\ feedback' = r.q
           /\ called' = TRUE
           /\ before' = feedback
           /\ blen' = n
           /\ ret' = r.abs
           /\ out' = r.out
           /\ pkts' = r.pkts
           /\ panic' = r.panic
    /\ UNCHANGED hvars
    /\ UNCHANGED ivars

Next ==
    \/ \E k \in Kinds : Push(k)
    \/ \E n \in BufSizes \cup LongBufSizes : BuildFeedback(n)

Spec == Init /\ [][Next]_vars

----------------------------------------------------------------------------
(* The header codec on its own: RtcpHeader::write_to and RtcpHeader::parse *)

\* header lengths in 32-bit words up to this bound are all tried
MaxHdrWords == 40

\* lengths in words given to write_to: the small ones and those around the
\* limits of the 16-bit arithmetic
HdrWords == (1..MaxHdrWords) \cup {16383, 16384, 16385, 32768, 65535, 65536}

\* values of the wire length field
WireWords == (0..MaxHdrWords) \cup {16382, 16383, 16384, 32767, 65534, 65535}

\* values of byte 0: version 2 with counts 0, 1, 31, with padding, versions 0, 1, 3
FirstBytes == {128, 129, 159, 160, 0, 64, 192}

\* values of byte 1: the packet types and their neighbours
SecondBytes == 199..208

\* lengths of the buffers handed to parse
HdrBufLens == {1, 7, 8, 12}

\* fmt.as_u8() of a header write_to is given, by packet type
FmtOf(pt) ==
    CASE pt = TransportLayerFeedbackPT -> {1}
      [] pt = PayloadSpecificFeedbackPT -> {1, 4}
      [] pt = ExtendedReportPT -> {0}
      [] OTHER -> {0, 1, 31}

\* header.write_to(&mut buf) on a zeroed buffer of 8 bytes
HeaderWrite(pt, c, words) ==
    /\ hbuf = NoBytes
    /\ LET b == HeaderBytes([count |-> c, packet_type |-> pt, length |-> 4 * words,
                             ssrc |-> 0])
       IN  hbuf' = [n |-> 8, b0 |-> b.b0, b1 |-> b.b1, w |-> b.w]
    /\ hlen' = 4 * words
    /\ hres' = NoResult
    /\ UNCHANGED bvars
    /\ UNCHANGED ivars

\* bytes arriving from the network
HeaderReceive(n, b0, b1, w) ==
    /\ hbuf = NoBytes
    /\ hbuf' = [n |-> n, b0 |-> b0, b1 |-> b1, w |-> w]
    /\ hlen' = 0
    /\ hres' = NoResult
    /\ UNCHANGED bvars
    /\ UNCHANGED ivars

\* RtcpHeader::parse(&buf, is_srtcp), built with or without overflow checks
HeaderParse(is_srtcp, checks) ==
    /\ hbuf.n > 0
    /\ ~hres.done
    /\ hres' = [done |-> TRUE, is_srtcp |-> is_srtcp, checks |-> checks,
                h |-> parse(hbuf.n, hbuf.b0, hbuf.b1, hbuf.w, is_srtcp, checks)]
    /\ UNCHANGED <<hbuf, hlen>>
    /\ UNCHANGED bvars
    /\ UNCHANGED ivars

NextHdr ==
    \/ /\ hbuf = NoBytes
       /\ \E pt \in 200..207 : \E c \in FmtOf(pt) : \E words \in HdrWords :
             HeaderWrite(pt, c, words)
    \/ /\ hbuf = NoBytes
       /\ \E n \in HdrBufLens : \E b0 \in FirstBytes : \E b1 \in SecondBytes :
             \E w \in WireWords : HeaderReceive(n, b0, b1, w)
    \/ \E is_srtcp \in BOOLEAN : \E checks \in BOOLEAN : HeaderParse(is_srtcp, checks)

SpecHdr == Init /\ [][NextHdr]_vars

----------------------------------------------------------------------------
(* The decode side on its own: RtcpFb::feedback(buf) walked header by header *)

\* most packets in a received buffer
MaxPackets == 2

\* one received packet: its packet type, its wire length field and the bytes it
\* really occupies
Segments ==
    [b1 : {ReceiverReportPT, GoodbyePT}, w : {1, 7, 16383, 65535}, size : {8, 32}]

RECURSIVE Layout(_, _)
\* the cells of a buffer made of the given packets, the first one at offset off
Layout(segs, off) ==
    IF segs = <<>> THEN Empty
    ELSE Put(Layout(Tail(segs), off + Head(segs).size), off,
             HdrCell(128, Head(segs).b1, Head(segs).w, 8))

RECURSIVE TotalSize(_)
TotalSize(segs) == IF segs = <<>> THEN 0 ELSE Head(segs).size + TotalSize(Tail(segs))

\* RtcpFb::feedback(&buf): FbIter::new(buf)
IterNew(segs, checks) ==
    /\ ilen = 0
    /\ ibuf' = Layout(segs, 0)
    /\ ilen' = TotalSize(segs)
    /\ ichecks' = checks
    /\ icur' = 0
    /\ iturn' = 0
    /\ idone' = "no"
    /\ UNCHANGED bvars
    /\ UNCHANGED hvars

\* one round of FbIter: parse the header at the cursor, yield its items, advance
\* the cursor by the header's length; a failed parse ends the sequence
IterStep ==
    /\ ilen > 0
    /\ idone = "no"
    /\ LET h == ParseAt(ibuf, ilen, icur, FALSE, ichecks)
       IN  IF h.panic THEN idone' = "panic" /\ UNCHANGED <<icur, iturn>>
           ELSE IF ~h.ok THEN idone' = "end" /\ UNCHANGED <<icur, iturn>>
           ELSE /\ icur' = icur + h.length
                /\ iturn' = 1 - iturn
                /\ idone' = "no"
    /\ UNCHANGED <<ibuf, ilen, ichecks>>
    /\ UNCHANGED bvars
    /\ UNCHANGED hvars

NextIter ==
    \/ /\ ilen = 0
       /\ \E k \in 1..MaxPackets : \E segs \in [1..k -> Segments] :
             \E checks \in BOOLEAN : IterNew(segs, checks)
    \/ IterStep

\* the caller keeps calling next() until the sequence ends
SpecIter == Init /\ [][NextIter]_vars /\ WF_vars(IterStep)

----------------------------------------------------------------------------
(* Properties of build_feedback *)

Range(q) == {q[i] : i \in 1..Len(q)}

Unsent == {"Sdes", "Nack", "Pli", "Fir"}

\* the offsets at which the record of an item was serialized
WrittenAt(fb) == {off \in DOMAIN out : out[off].t = "body" /\ out[off].item = fb}

\* no other cell of the buffer overlaps the cell at off
Intact(off) ==
    \A o2 \in DOMAIN out \ {off} :
        o2 + out[o2].len <= off \/ off + out[off].len <= o2

\* the kind at the head of the queue once it is sorted by priority
HeadKind(q) ==
    IF Count(q, "SenderInfo") > 0 THEN "SenderInfo"
    ELSE IF Count(q, "ReceiverReport") > 0 THEN "ReceiverReport"
    ELSE IF Count(q, "Goodbye") > 0 THEN "Goodbye"
    ELSE "other"

\* C1: every header build_feedback writes carries a count that fits the 5-bit
\* field, 0 <= count <= 31, the ReceiverReport-led groups included.
C1_CountFitsFiveBits ==
    called => \A i \in 1..Len(pkts) : pkts[i].count \in 0..31

\* C2: for a queue of SenderInfo and ReceiverReport items only and a buffer large
\* enough for all of them, decoding the written bytes yields exactly the items
\* that were enqueued, a SenderInfo first when there is one.
C2_RoundTrip ==
    (called /\ before # <<>> /\ ReportsOnly(before) /\ blen >= 32 * Len(before))
    => \A checks \in BOOLEAN :
         LET d == Decode(out, ret, 0, checks)
         IN  /\ Len(d) = Len(before)
             /\ Range(d) = Range(before)
             /\ Count(before, "SenderInfo") > 0 => d[1].kind = "SenderInfo"

\* C3: after a call every item that was in the queue is either still in the
\* queue or was serialized into the buffer exactly once, never both, and the
\* queue holds nothing else.
C3_NothingLostOrDuplicated ==
    called =>
      /\ Range(feedback) \subseteq Range(before)
      /\ Cardinality(Range(feedback)) = Len(feedback)
      /\ \A fb \in Range(before) :
           IF fb \in Range(feedback)
           THEN WrittenAt(fb) = {}
           ELSE /\ Cardinality(WrittenAt(fb)) = 1
                /\ \A off \in WrittenAt(fb) : Intact(off) /\ off + out[off].len <= ret

\* a partial flush: part of the reports was written, part stays queued
C3_Witness ==
    /\ called
    /\ ret > 0
    /\ \E fb \in Range(feedback) : fb.kind = "ReceiverReport"
    /\ \E fb \in Range(before) : fb.kind = "ReceiverReport" /\ WrittenAt(fb) # {}

\* C4: with a buffer smaller than the minimum for the head of the priority-sorted
\* queue (28 for a SenderInfo, 32 for a ReceiverReport, 8 for a Goodbye) the call
\* returns 0, removes no item and writes nothing.
C4_Pre ==
    /\ called
    /\ HeadKind(before) # "other"
    /\ blen < (CASE HeadKind(before) = "SenderInfo" -> 28
                 [] HeadKind(before) = "ReceiverReport" -> 32
                 [] HeadKind(before) = "Goodbye" -> 8)

C4_InsufficientBuffer ==
    C4_Pre =>
      /\ ret = 0
      /\ panic = "none"
      /\ out = Empty
      /\ Len(feedback) = Len(before)
      /\ Range(feedback) = Range(before)

\* a buffer of some bytes, too small for the head, and a queue of several items
C4_Witness == C4_Pre /\ blen > 0 /\ Len(before) > 1 /\ feedback # before

\* C5: with room for them, one SenderInfo alone encodes to 28 bytes, one
\* ReceiverReport alone to 32 bytes, and one SenderInfo with n ReceiverReports,
\* 1 <= n <= 31, in any insertion order, to one SenderReport packet of 28 + 24*n
\* bytes, leaving the queue empty.
C5_GroupingArithmetic ==
    called =>
      LET n == Count(before, "ReceiverReport")
          si == Count(before, "SenderInfo")
      IN  /\ (Len(before) = 1 /\ si = 1 /\ blen >= 28) => (ret = 28 /\ feedback = <<>>)
          /\ (Len(before) = 1 /\ n = 1 /\ blen >= 32) => (ret = 32 /\ feedback = <<>>)
          /\ (ReportsOnly(before) /\ si = 1 /\ n \in 1..31 /\ blen >= 28 + 24 * n)
             => /\ ret = 28 + 24 * n
                /\ Len(pkts) = 1
                /\ pkts[1].pt = SenderReportPT
                /\ pkts[1].length = ret
                /\ feedback = <<>>

\* 31 ReceiverReports enqueued ahead of the SenderInfo, all in one packet
C5_Witness ==
    /\ called
    /\ ReportsOnly(before)
    /\ Count(before, "SenderInfo") = 1
    /\ Count(before, "ReceiverReport") = 31
    /\ before[1].kind = "ReceiverReport"
    /\ ret = 772
    /\ feedback = <<>>

\* C6: one SenderInfo and more than 31 ReceiverReports with a buffer large enough:
\* the first group is a SenderReport packet with the SenderInfo and exactly 31
\* ReceiverReports, the ReceiverReport packets after it carry the remaining ones;
\* for 33 ReceiverReports and 1200 bytes the call returns 828 and empties the queue.
C6_CapForcesSecondGroup ==
    (/\ called
     /\ ReportsOnly(before)
     /\ Count(before, "SenderInfo") = 1
     /\ Count(before, "ReceiverReport") > 31
     /\ blen >= 32 * Len(before))
    => /\ Len(pkts) >= 2
       /\ pkts[1].pt = SenderReportPT
       /\ Len(pkts[1].items) = 32
       /\ pkts[1].items[1].kind = "SenderInfo"
       /\ \A j \in 2..32 : pkts[1].items[j].kind = "ReceiverReport"
       /\ \A i \in 2..Len(pkts) :
            /\ pkts[i].pt = ReceiverReportPT
            /\ pkts[i].items # <<>>
            /\ \A j \in 1..Len(pkts[i].items) : pkts[i].items[j].kind = "ReceiverReport"
       /\ \A fb \in Range(before) :
            Cardinality({i \in 1..Len(pkts) : fb \in Range(pkts[i].items)}) = 1
       /\ feedback = <<>>
       /\ (Count(before, "ReceiverReport") = 33 /\ blen = 1200) => ret = 828

\* 33 ReceiverReports and a SenderInfo flushed into 1200 bytes
C6_Witness ==
    /\ called
    /\ Count(before, "SenderInfo") = 1
    /\ Count(before, "ReceiverReport") = 33
    /\ blen = 1200
    /\ ret = 828
    /\ Len(pkts) = 2
    /\ feedback = <<>>

\* C7: Sdes, Nack, Pli and Fir items are never dropped and never serialized: each
\* one is still queued after the call, no byte is written for them, and the
\* unimplemented arms of RtcpFb::write_to are not reached.
C7_UnsentStayQueued ==
    called =>
      /\ panic # "todo"
      /\ \A fb \in Range(before) :
           fb.kind \in Unsent =>
             Cardinality({i \in 1..Len(feedback) : feedback[i] = fb}) = 1
      /\ \A off \in DOMAIN out :
           IF out[off].t = "hdr"
           THEN out[off].b1 \in {SenderReportPT, ReceiverReportPT, GoodbyePT}
           ELSE out[off].item.kind \notin Unsent
      /\ \A i \in 1..Len(pkts) :
           \A j \in 1..Len(pkts[i].items) : pkts[i].items[j].kind \notin Unsent

\* Goodbyes were written up to the first item that is not serialized
C7_Witness ==
    /\ called
    /\ ret > 0
    /\ feedback # <<>>
    /\ Head(feedback).kind \in Unsent
    /\ \E i \in 1..Len(pkts) : pkts[i].pt = GoodbyePT /\ Len(pkts[i].items) > 1

\* C8: whenever build_feedback writes at least one byte, the first packet of the
\* output is a SenderReport or ReceiverReport, so RtcpHeader::parse of the output
\* with is_srtcp = true succeeds.
C8_FirstPacketIsReport ==
    (called /\ ret > 0)
    => \A checks \in BOOLEAN : ParseAt(out, ret, 0, TRUE, checks).ok

IsReportPkt(p) == p.pt \in {SenderReportPT, ReceiverReportPT}

Sendable == {"SenderInfo", "ReceiverReport", "Goodbye"}

RECURSIVE SumLengths(_)
SumLengths(ps) == IF ps = <<>> THEN 0 ELSE Head(ps).length + SumLengths(Tail(ps))

\* C13: build_feedback never hits a fatal breach: the multiple-of-4 assertion
\* holds for every header, every write stays inside the buffer, the yank of
\* ReceiverReports always finds one, every item popped in the Goodbye loop exists
\* and is a Goodbye.
C13_NoFatalBreach ==
    called =>
      /\ panic = "none"
      /\ \A off \in DOMAIN out : off + out[off].len <= blen
      /\ \A i \in 1..Len(pkts) :
           /\ pkts[i].length % 4 = 0
           /\ pkts[i].off + pkts[i].length <= blen
           /\ pkts[i].pt = GoodbyePT =>
                \A j \in 1..Len(pkts[i].items) : pkts[i].items[j].kind = "Goodbye"
           /\ IsReportPkt(pkts[i]) =>
                \A j \in 2..Len(pkts[i].items) : pkts[i].items[j].kind = "ReceiverReport"

\* a call that yanked a ReceiverReport and wrote a Goodbye group as well
C13_Witness ==
    /\ called
    /\ panic = "none"
    /\ \E i \in 1..Len(pkts) : IsReportPkt(pkts[i]) /\ Len(pkts[i].items) >= 2
    /\ \E i \in 1..Len(pkts) : pkts[i].pt = GoodbyePT

\* C14: the value returned is the sum of the length fields of the packets written
\* in the call, a multiple of 4, at most the length of the buffer, and 0 exactly
\* when no item was removed from the queue.
C14_ReturnValue ==
    called =>
      /\ ret = SumLengths(pkts)
      /\ \A i \in 1..Len(pkts) :
           /\ pkts[i].off \in DOMAIN out
           /\ out[pkts[i].off].t = "hdr"
           /\ (out[pkts[i].off].w + 1) * 4 = pkts[i].length
      /\ Cardinality({off \in DOMAIN out : out[off].t = "hdr"}) = Len(pkts)
      /\ ret % 4 = 0
      /\ ret <= blen
      /\ (ret = 0) <=> (Len(feedback) = Len(before))

\* two packets written, room left in the buffer, items left in the queue
C14_Witness ==
    /\ called
    /\ Len(pkts) >= 2
    /\ ret < blen
    /\ feedback # <<>>

\* C15: in every SenderReport or ReceiverReport packet the header's count is the
\* number of 24-byte ReceiverReport records serialized in the packet (the appended
\* ones, plus 1 when the first item is a ReceiverReport), and the header's length
\* is the header length plus the bytes of all records of the packet.
C15_CountMatchesRecords ==
    called =>
      \A i \in 1..Len(pkts) :
        IsReportPkt(pkts[i]) =>
          LET p == pkts[i]
              cells == {off \in DOMAIN out : /\ out[off].t = "body"
                                             /\ p.off <= off
                                             /\ off < p.off + p.length}
              rrs == {off \in cells : out[off].item.kind = "ReceiverReport"}
          IN  /\ out[p.off].b0 % 32 = Cardinality(rrs)
              /\ p.count = (Len(p.items) - 1)
                           + (IF p.items[1].kind = "ReceiverReport" THEN 1 ELSE 0)
              /\ p.length = (IF p.pt = SenderReportPT THEN 4 ELSE 8)
                            + 24 * Cardinality(cells)

\* ReceiverReports still queued when packet i is begun, its first item aside
RrLeftAt(i) ==
    Count(before, "ReceiverReport")
    - Cardinality({fb \in Range(before) :
                     /\ fb.kind = "ReceiverReport"
                     /\ \E k \in 1..(i - 1) : fb \in Range(pkts[k].items)})
    - (IF pkts[i].items[1].kind = "ReceiverReport" THEN 1 ELSE 0)

\* C16: the ReceiverReports appended after the first item of a group number
\* min(ReceiverReports still queued, 31, floor((remaining bytes - minimum for the
\* first item) / 24)); so when the call returns with a SenderInfo, ReceiverReport
\* or Goodbye at the head of the queue, the unused rest of the buffer is smaller
\* than the minimum for that item.
C16_AppendedCount ==
    called =>
      /\ \A i \in 1..Len(pkts) :
           IsReportPkt(pkts[i]) =>
             LET first == IF pkts[i].pt = SenderReportPT THEN 28 ELSE 32
                 room == (blen - pkts[i].off - first) \div 24
                 left == RrLeftAt(i)
                 m == IF left < 31 THEN left ELSE 31
             IN  Len(pkts[i].items) - 1 = (IF m < room THEN m ELSE room)
      /\ (feedback # <<>> /\ Head(feedback).kind \in Sendable) =>
           blen - ret < (CASE Head(feedback).kind = "SenderInfo" -> 28
                           [] Head(feedback).kind = "ReceiverReport" -> 32
                           [] Head(feedback).kind = "Goodbye" -> 8)

\* the buffer is what limits the group: reports were appended and one is left
C16_Witness ==
    /\ called
    /\ Len(pkts) = 1
    /\ Len(pkts[1].items) >= 2
    /\ feedback # <<>>
    /\ Head(feedback).kind = "ReceiverReport"

\* C17: for a queue of SenderInfo, ReceiverReport and Goodbye items only, every
\* call with a buffer of at least 32 bytes removes at least one item from a
\* non-empty queue, so repeated calls empty it; Sdes, Nack, Pli and Fir items
\* stay in the queue whatever the number of calls.
C17_RetryDrains ==
    /\ [][(/\ called'
           /\ before' = feedback
           /\ blen' >= 32
           /\ feedback # <<>>
           /\ \A i \in 1..Len(feedback) : feedback[i].kind \in Sendable)
          => Len(feedback') < Len(feedback)]_vars
    /\ [][\A i \in 1..Len(feedback) :
            feedback[i].kind \in Unsent => feedback[i] \in Range(feedback')]_vars

\* a second call that emptied what the first call had left
C17_Witness ==
    /\ called
    /\ feedback = <<>>
    /\ before # <<>>
    /\ blen >= 32
    /\ \A i \in 1..Len(before) : before[i].kind \in Sendable /\ before[i].ssrc > 1

\* C18: in every Goodbye packet the header's source count is the number of
\* Goodbye SSRCs serialized in the packet, the first one and the appended ones.
C18_GoodbyeCount ==
    called =>
      \A i \in 1..Len(pkts) :
        pkts[i].pt = GoodbyePT => pkts[i].count = Len(pkts[i].items)

\* C19: within a call every SenderReport/ReceiverReport packet lies at a lower
\* offset than every Goodbye packet, a Goodbye packet is written only by a call
\* that leaves no SenderInfo or ReceiverReport queued, and a call whose pass 1
\* stops for lack of space writes no Goodbye even if one would fit.
C19_ReportsBeforeGoodbyes ==
    called =>
      /\ \A i, j \in 1..Len(pkts) :
           (IsReportPkt(pkts[i]) /\ pkts[j].pt = GoodbyePT) => pkts[i].off < pkts[j].off
      /\ (\E i \in 1..Len(feedback) : IsReport(feedback[i])) =>
           /\ \A i \in 1..Len(pkts) : pkts[i].pt # GoodbyePT
           /\ \A off \in DOMAIN out :
                (out[off].t = "hdr" => out[off].b1 # GoodbyePT)
                /\ (out[off].t = "body" => out[off].item.kind # "Goodbye")

\* pass 1 stopped with room for a Goodbye that stays queued
C19_Witness ==
    /\ called
    /\ feedback # <<>>
    /\ Head(feedback).kind \in {"SenderInfo", "ReceiverReport"}
    /\ \E i \in 1..Len(feedback) : feedback[i].kind = "Goodbye"
    /\ blen - ret >= 8
    /\ \A i \in 1..Len(pkts) : pkts[i].pt # GoodbyePT

\* C20: items of one kind are serialized in insertion order: of two
\* ReceiverReports (or SenderInfos, or Goodbyes) a and b, a enqueued first, a is
\* never written behind b within a call, and b is never dequeued by a call that
\* leaves a in the queue.
C20_InsertionOrder ==
    called =>
      \A queued \in {[i \in 1..Len(before) |->
                         {x \in 1..Len(feedback) : feedback[x] = before[i]}]} :
      \A at \in {[i \in 1..Len(before) |-> WrittenAt(before[i])]} :
          \A i \in 1..Len(before) : \A j \in (i + 1)..Len(before) :
            (before[i].kind = before[j].kind /\ before[i].kind \in Sendable) =>
              /\ queued[j] = {} => queued[i] = {}
              /\ \A oa \in at[i] : \A ob \in at[j] : oa < ob
              /\ \A x \in queued[i] : \A y \in queued[j] : x < y

\* two ReceiverReports enqueued ahead of a SenderInfo: the first one is written,
\* the second one stays queued
C20_Witness ==
    /\ called
    /\ Len(before) = 3
    /\ before[1].kind = "ReceiverReport"
    /\ before[2].kind = "ReceiverReport"
    /\ before[3].kind = "SenderInfo"
    /\ WrittenAt(before[1]) # {}
    /\ before[2] \in Range(feedback)

----------------------------------------------------------------------------
(* Properties of the header codec *)

\* C9: for every value w of the wire length field of an otherwise valid header,
\* parse succeeds with length = (w + 1) * 4, a non-zero multiple of 4.
C9_LengthDecoded ==
    (/\ hres.done
     /\ parse(hbuf.n, hbuf.b0, hbuf.b1, 0, hres.is_srtcp, hres.checks).ok)
    => /\ hres.h.ok
       /\ hres.h.length = (hbuf.w + 1) * 4
       /\ hres.h.length > 0
       /\ hres.h.length % 4 = 0

\* C10: for every header length L, a non-zero multiple of 4 with L/4 - 1 <= 65535,
\* write_to puts L/4 - 1 into bytes 2..4 and parse of those bytes gives L back.
C10_LengthRoundTrip ==
    (/\ hres.done
     /\ hlen > 0
     /\ (hlen \div 4) - 1 <= 65535
     /\ ~hres.is_srtcp)
    => /\ hbuf.w = (hlen \div 4) - 1
       /\ hres.h.ok
       /\ hres.h.length = hlen

\* C11: parse produces no header when the buffer is shorter than 8 bytes, or the
\* top two bits of byte 0 are not 2, or byte 1 is no packet type in 200..207, or
\* is_srtcp is set and the packet type is neither SenderReport nor ReceiverReport;
\* a well-formed Goodbye buffer is rejected with is_srtcp and parsed without it.
C11_HeaderValidation ==
    hres.done =>
      /\ hbuf.n < 8 => ~hres.h.ok
      /\ (hbuf.b0 \div 64) # 2 => ~hres.h.ok
      /\ hbuf.b1 \notin 200..207 => ~hres.h.ok
      /\ (hres.is_srtcp /\ hbuf.b1 \notin {200, 201}) => ~hres.h.ok
      /\ (/\ hbuf.n >= 8
          /\ (hbuf.b0 \div 64) = 2
          /\ hbuf.b1 = 203
          /\ (hbuf.w + 1) * 4 <= hbuf.n)
         => (hres.h.ok <=> ~hres.is_srtcp)

\* a well-formed Goodbye of 8 bytes refused by the SRTCP gate
C11_Witness ==
    /\ hres.done
    /\ hres.is_srtcp
    /\ hbuf = [n |-> 8, b0 |-> 129, b1 |-> 203, w |-> 1]
    /\ ~hres.h.ok

----------------------------------------------------------------------------
(* Properties of the decode side *)

\* C12: the decode sequence is finite for every input buffer: the iteration,
\* which advances the cursor by each header's decoded length, always comes to
\* its end, also for corrupt or extreme length fields.
C12_DecodeTerminates == (ilen > 0) ~> (idone # "no")

====
